---- MODULE Spec2Model ----
(***************************************************************************)
(* Authentication core of backend/index.js: the User collection, the      *)
(* register / login / refresh routes, the authenticate middleware and the *)
(* protected article write route.  Every route handler is split at its    *)
(* awaits, so that concurrent requests interleave as they do on the node  *)
(* event loop.  Time is the clock jsonwebtoken reads, in whole seconds.    *)
(***************************************************************************)
EXTENDS Integers, Sequences, FiniteSets, TLC

VARIABLES
    env,        \* process.env: JWT_SECRET, REFRESH_TOKEN_SECRET, NODE_ENV
    warned,     \* the startup console.error of line 19 was written
    users,      \* the User collection: _id -> document
    articles,   \* number of documents in the Article collection
    now,        \* Math.floor(Date.now() / 1000)
    advances,   \* how often the clock was advanced
    req,        \* the requests in flight, one per connection
    res,        \* the answer written by the latest step, with its request
    loginLog,   \* answers of the successful logins, in the order of their saves
    granted     \* the access token of the latest successful refresh

vars == <<env, warned, users, articles, now, advances, req, res,
          loginLog, granted>>

-----------------------------------------------------------------------------
(* Bounds of the model *)

MaxLogins   == 2     \* logins answered 200
MaxArticles == 1     \* articles created
MaxAdvances == 1     \* steps of the clock

Conns     == {1, 2}
\* names and passwords of register bodies, and of login bodies
RegUsernames == {"alice"}
RegPasswords == {"pw1"}
Usernames == {"alice", "bob"}
Passwords == {"pw1", "pw2"}
Salts     == {"saltA"}
\* role of a register body: "" is an omitted (or empty) role
BodyRoles == {"", "admin", "editor", "viewer"}
\* process.env of a deployment that configures no secret
EnvUnset ==
    [NODE_ENV |-> "production", JWT_SECRET |-> "", REFRESH_TOKEN_SECRET |-> ""]

-----------------------------------------------------------------------------
(* Configuration, lines 14-24 *)

OrDefault(value, fallback) == IF value # "" THEN value ELSE fallback

JWT_SECRET == OrDefault(env.JWT_SECRET, "development-jwt-secret")

\* slip: the refresh token is signed and verified with the access-token secret
RefreshSecretIsAccessSecret == JWT_SECRET

REFRESH_TOKEN_SECRET ==
    OrDefault(env.REFRESH_TOKEN_SECRET, "development-refresh-secret")

\* the condition of the startup warning, line 18: a secret is "not set" when
\* the constant that already holds the fallback is falsy
StartupWarns(e) ==
    /\ e.NODE_ENV = "production"
    /\ \/ OrDefault(e.JWT_SECRET, "development-jwt-secret") = ""
       \/ OrDefault(e.REFRESH_TOKEN_SECRET, "development-refresh-secret") = ""

\* '1h' and '7d' in seconds
ACCESS_TOKEN_EXPIRES_IN == 3600

\* slip: the refresh token lives as long as the access token
RefreshExpiresLikeAccess == ACCESS_TOKEN_EXPIRES_IN

REFRESH_TOKEN_EXPIRES_IN == 604800

-----------------------------------------------------------------------------
(* jsonwebtoken.  A token string is determined by secret, payload, iat and  *)
(* exp (HS256 is deterministic): two sign calls with the same payload and  *)
(* secret in the same second return the same string.                       *)

NoToken == [kind |-> "absent", secret |-> "", id |-> 0, username |-> "",
            role |-> "", iat |-> 0, exp |-> 0]
EmptyToken == [NoToken EXCEPT !.kind = "empty"]
Garbage == [NoToken EXCEPT !.kind = "garbage"]

\* jwt.sign(payload, secret, {expiresIn}); a refresh payload has no username
\* and no role
jwtSign(id, username, role, secret, expiresIn) ==
    [kind |-> "jwt", secret |-> secret, id |-> id, username |-> username,
     role |-> role, iat |-> now, exp |-> now + expiresIn]

\* slip: verification with ignoreExpiration
jwtVerifyNoExpiry(token, secret) ==
    /\ token.kind = "jwt"
    /\ token.secret = secret

\* jwt.verify(token, secret) does not throw
jwtVerify(token, secret) ==
    /\ token.kind = "jwt"
    /\ token.secret = secret
    /\ now < token.exp

\* !refreshToken of line 404
Falsy(token) == token.kind \in {"absent", "empty"}

-----------------------------------------------------------------------------
(* bcryptjs and the User schema, lines 249-287 *)

\* A password field holds the string `of` hashed `n` times, the last time with
\* `salt`; n = 0 is the plaintext itself.
Plain(password) == [of |-> password, salt |-> "", n |-> 0]

\* bcrypt.hash(value, salt)
bcryptHash(value, salt) == [of |-> value.of, salt |-> salt, n |-> value.n + 1]

\* bcrypt.compare(password, hash)
bcryptCompare(password, hash) == hash.n = 1 /\ hash.of = password

NoDoc == [id |-> 0, username |-> "", password |-> Plain(""), role |-> "",
          refreshToken |-> NoToken]

\* slip: the hook returns without hashing
preSaveKeepsPlaintext(doc, passwordModified, salt) == doc

\* slip: the hook hashes the password on every save
preSaveAlwaysHashes(doc, passwordModified, salt) ==
    [doc EXCEPT !.password = bcryptHash(doc.password, salt)]

\* the pre('save') hook, lines 275-285
preSave(doc, passwordModified, salt) ==
    IF ~passwordModified THEN doc
    ELSE [doc EXCEPT !.password = bcryptHash(doc.password, salt)]

Roles == {"admin", "editor"}

\* slip: the schema declares no enum for role
ValidatesWithoutEnum(doc) ==
    /\ doc.username # ""
    /\ doc.password.of # ""

\* schema validation run by save(): required username and password, role enum
Validates(doc) ==
    /\ doc.username # ""
    /\ doc.password.of # ""
    /\ doc.role \in Roles

\* the unique index on username
UsernameTaken(username) == \E i \in DOMAIN users : users[i].username = username

\* User.findOne({ username }): the _id found, 0 for null
findOne(username) ==
    IF UsernameTaken(username)
    THEN CHOOSE i \in DOMAIN users : users[i].username = username
    ELSE 0

\* User.findById(id): the _id found, 0 for null
findById(id) == IF id \in DOMAIN users THEN id ELSE 0

-----------------------------------------------------------------------------
(* Requests *)

\* An Authorization header, split at its spaces; <<>> is no header
NoHeader == <<>>

\* a request in flight: where its handler waits, and the handler's variables
Idle == [op |-> "idle", pc |-> "idle", password |-> "", token |-> NoToken,
         user |-> NoDoc, modified |-> FALSE,
         accessToken |-> NoToken, refreshToken |-> NoToken]

\* what a request carries: body fields, or the Authorization header
NoRequest == [op |-> "none", username |-> "", password |-> "", role |-> "",
              token |-> NoToken, header |-> NoHeader]

\* no answer is written
NoResponse == [request |-> NoRequest, pc |-> "", user |-> NoDoc, status |-> 0,
               message |-> "", accessToken |-> NoToken,
               refreshToken |-> NoToken]

\* a new request is taken by the first connection that is free
Free(c) == req[c] = Idle /\ \A d \in Conns : d < c => req[d] # Idle

\* res.status(status).json({ message }): the request ends.  `pc` is the place
\* in the handler that answers, `user` the document the handler holds.
Respond(c, request, pc, user, status, message) ==
    /\ req' = [req EXCEPT ![c] = Idle]
    /\ res' = [NoResponse EXCEPT !.request = request, !.pc = pc, !.user = user,
                                 !.status = status, !.message = message]

\* res.json({ accessToken, refreshToken, ... }): the request ends with 200
RespondTokens(c, request, pc, user, accessToken, refreshToken) ==
    /\ req' = [req EXCEPT ![c] = Idle]
    /\ res' = [NoResponse EXCEPT !.request = request, !.pc = pc, !.user = user,
                                 !.status = 200,
                                 !.accessToken = accessToken,
                                 !.refreshToken = refreshToken]

\* the handler waits for its next promise
Await(c, r) ==
    /\ req' = [req EXCEPT ![c] = r]
    /\ res' = NoResponse

\* Tokens a client can put into a request: the ones it was sent, nothing,
\* junk, and tokens it signed itself, with a secret of its own or with the
\* fallback secrets of lines 15-16, which are public
ForgerSecrets ==
    {"attacker-secret", "development-jwt-secret", "development-refresh-secret"}

Forged ==
    {[kind |-> "jwt", secret |-> s, id |-> 1, username |-> "", role |-> "",
      iat |-> 0, exp |-> 4 * REFRESH_TOKEN_EXPIRES_IN] : s \in ForgerSecrets}

\* every token string a login has returned
LoginTokens ==
    {loginLog[i].accessToken : i \in DOMAIN loginLog} \cup
    {loginLog[i].refreshToken : i \in DOMAIN loginLog}
Issued == LoginTokens \cup ({granted} \ {NoToken})
Presentable == Issued \cup Forged \cup {NoToken, Garbage}
Headers ==
    {NoHeader, <<"Bearer">>} \cup
    {<<"Basic", Garbage>>} \cup
    {<<"Bearer", t>> : t \in Presentable \ {NoToken}}

-----------------------------------------------------------------------------
(* POST /api/auth/register, lines 326-350 *)

RegisterRequest(username, password, role) ==
    [NoRequest EXCEPT !.op = "register", !.username = username,
                      !.password = password, !.role = role]

\* the request arrives, User.findOne resolves and the document is built
\* (lines 329-342); its _id is written when it is inserted, because the _id
\* of a document that is never inserted is seen by nobody
Register(c, username, password, role) ==
    /\ Free(c)
    /\ LET request == RegisterRequest(username, password, role)
           id == findOne(username)
       IN  IF id # 0
           THEN Respond(c, request, "findOne", users[id], 400,
                        "Username already exists")
           ELSE Await(c, [Idle EXCEPT !.op = "register", !.pc = "save",
                                      !.user = [id |-> 0,
                                                username |-> username,
                                                password |-> Plain(password),
                                                role |-> OrDefault(role, "editor"),
                                                refreshToken |-> NoToken]])
    /\ UNCHANGED <<env, warned, users, articles, now, advances, loginLog, granted>>

\* user.save() resolves or rejects (lines 344-348): validation, the pre-save
\* hook, then the insert, which the unique index on username can refuse
RegisterSave(c) ==
    /\ req[c].op = "register" /\ req[c].pc = "save"
    /\ \E salt \in Salts :
         LET doc == [req[c].user EXCEPT !.id = Cardinality(DOMAIN users) + 1]
             request == RegisterRequest(doc.username, doc.password.of, doc.role)
         IN  IF ~Validates(doc)
             THEN /\ Respond(c, request, "save", doc, 500,
                             "User validation failed")
                  /\ UNCHANGED users
             ELSE IF UsernameTaken(doc.username)
             THEN /\ Respond(c, request, "save", doc, 500,
                             "E11000 duplicate key error")
                  /\ UNCHANGED users
             ELSE /\ users' = users @@ (doc.id :> preSave(doc, TRUE, salt))
                  /\ Respond(c, request, "save", doc, 201,
                             "User created successfully")
    /\ UNCHANGED <<env, warned, articles, now, advances, loginLog, granted>>

-----------------------------------------------------------------------------
(* POST /api/auth/login, lines 352-398 *)

LoginRequest(username, password) ==
    [NoRequest EXCEPT !.op = "login", !.username = username,
                      !.password = password]

\* slip: an unknown username is answered 404
LoginRevealsUnknown(c, username, password) ==
    /\ Free(c)
    /\ LET id == findOne(username)
       IN  IF id = 0
           THEN Respond(c, LoginRequest(username, password), "findOne", NoDoc,
                        404, "User not found")
           ELSE Await(c, [Idle EXCEPT !.op = "login", !.pc = "compare",
                                      !.password = password,
                                      !.user = users[id]])
    /\ UNCHANGED <<env, warned, users, articles, now, advances, loginLog, granted>>

\* the request arrives and User.findOne resolves (lines 354-360)
Login(c, username, password) ==
    /\ Free(c)
    /\ LET id == findOne(username)
       IN  IF id = 0
           THEN Respond(c, LoginRequest(username, password), "findOne", NoDoc,
                        401, "Invalid credentials")
           ELSE Await(c, [Idle EXCEPT !.op = "login", !.pc = "compare",
                                      !.password = password,
                                      !.user = users[id]])
    /\ UNCHANGED <<env, warned, users, articles, now, advances, loginLog, granted>>

\* slip: a login with a wrong password signs the user out
LoginCompareSignsOut(c) ==
    /\ req[c].op = "login" /\ req[c].pc = "compare"
    /\ LET user == req[c].user
           accessToken == jwtSign(user.id, user.username, user.role, JWT_SECRET,
                                  ACCESS_TOKEN_EXPIRES_IN)
           refreshToken == jwtSign(user.id, "", "", REFRESH_TOKEN_SECRET,
                                   REFRESH_TOKEN_EXPIRES_IN)
       IN  IF ~bcryptCompare(req[c].password, user.password)
           THEN /\ Respond(c, LoginRequest(user.username, req[c].password),
                           "compare", user, 401, "Invalid credentials")
                /\ users' = [users EXCEPT ![user.id].refreshToken = NoToken]
           ELSE /\ Len(loginLog) < MaxLogins
                /\ Await(c, [req[c] EXCEPT
                               !.pc = "save",
                               !.accessToken = accessToken,
                               !.refreshToken = refreshToken,
                               !.modified = (user.refreshToken # refreshToken),
                               !.user.refreshToken = refreshToken])
                /\ UNCHANGED users
    /\ UNCHANGED <<env, warned, articles, now, advances, loginLog, granted>>

\* bcrypt.compare resolves; both tokens are signed and the refresh token is
\* set on the loaded document, which marks the path modified when the value
\* differs from the loaded one (lines 363-383)
LoginCompare(c) ==
    /\ req[c].op = "login" /\ req[c].pc = "compare"
    /\ LET user == req[c].user
           accessToken == jwtSign(user.id, user.username, user.role, JWT_SECRET,
                                  ACCESS_TOKEN_EXPIRES_IN)
           refreshToken == jwtSign(user.id, "", "", REFRESH_TOKEN_SECRET,
                                   REFRESH_TOKEN_EXPIRES_IN)
       IN  IF ~bcryptCompare(req[c].password, user.password)
           THEN Respond(c, LoginRequest(user.username, req[c].password),
                        "compare", user, 401, "Invalid credentials")
           ELSE /\ Len(loginLog) < MaxLogins
                /\ Await(c, [req[c] EXCEPT
                               !.pc = "save",
                               !.accessToken = accessToken,
                               !.refreshToken = refreshToken,
                               !.modified = (user.refreshToken # refreshToken),
                               !.user.refreshToken = refreshToken])
    /\ UNCHANGED <<env, warned, users, articles, now, advances, loginLog, granted>>

\* user.save() resolves: the pre-save hook sees no modified password, the
\* path refreshToken is written if it was modified, and the answer is sent
\* (lines 384-394)
LoginSave(c) ==
    /\ req[c].op = "login" /\ req[c].pc = "save"
    /\ Len(loginLog) < MaxLogins
    /\ \E salt \in Salts :
         LET doc == preSave(req[c].user, FALSE, salt)
         IN  users' = IF req[c].modified
                      THEN [users EXCEPT ![doc.id].password = doc.password,
                                         ![doc.id].refreshToken = doc.refreshToken]
                      ELSE [users EXCEPT ![doc.id].password = doc.password]
    /\ RespondTokens(c, LoginRequest(req[c].user.username, req[c].password),
                     "save", req[c].user, req[c].accessToken,
                     req[c].refreshToken)
    /\ loginLog' = Append(loginLog, [id |-> req[c].user.id,
                                     accessToken |-> req[c].accessToken,
                                     refreshToken |-> req[c].refreshToken])
    /\ UNCHANGED <<env, warned, articles, now, advances, granted>>

-----------------------------------------------------------------------------
(* POST /api/auth/refresh, lines 401-430 *)

RefreshRequest(token) == [NoRequest EXCEPT !.op = "refresh", !.token = token]

\* slip: the stored token is not compared
StoredTokenIgnored(token) == findById(token.id) # 0

\* user && user.refreshToken === refreshToken, for the user of the id claim
\* (lines 413-415)
StoredTokenMatches(token) ==
    /\ findById(token.id) # 0
    /\ users[findById(token.id)].refreshToken = token

\* the handler, run without interruption in the current state, answers 200
RefreshAccepts(token) ==
    /\ ~Falsy(token)
    /\ jwtVerify(token, REFRESH_TOKEN_SECRET)
    /\ StoredTokenMatches(token)

\* slip: the token is decoded, not verified
RefreshDecodesOnly(c, token) ==
    /\ Free(c)
    /\ IF Falsy(token)
       THEN Respond(c, RefreshRequest(token), "check", NoDoc, 401,
                    "Refresh token required")
       ELSE Await(c, [Idle EXCEPT !.op = "refresh", !.pc = "findById",
                                  !.token = token])
    /\ UNCHANGED <<env, warned, users, articles, now, advances, loginLog, granted>>

\* the request arrives; the token is checked and verified (lines 402-410)
Refresh(c, token) ==
    /\ Free(c)
    /\ IF Falsy(token)
       THEN Respond(c, RefreshRequest(token), "check", NoDoc, 401,
                    "Refresh token required")
       ELSE IF ~jwtVerify(token, REFRESH_TOKEN_SECRET)
       THEN Respond(c, RefreshRequest(token), "verify", NoDoc, 403,
                    "Invalid refresh token")
       ELSE Await(c, [Idle EXCEPT !.op = "refresh", !.pc = "findById",
                                  !.token = token])
    /\ UNCHANGED <<env, warned, users, articles, now, advances, loginLog, granted>>

\* slip: refresh rotates the refresh token
RefreshFindByIdRotating(c) ==
    /\ req[c].op = "refresh" /\ req[c].pc = "findById"
    /\ LET id == findById(req[c].token.id)
           user == IF id = 0 THEN NoDoc ELSE users[id]
           accessToken == jwtSign(user.id, user.username, user.role, JWT_SECRET,
                                  ACCESS_TOKEN_EXPIRES_IN)
           refreshToken == jwtSign(user.id, "", "", REFRESH_TOKEN_SECRET,
                                   REFRESH_TOKEN_EXPIRES_IN)
       IN  IF ~StoredTokenMatches(req[c].token)
           THEN /\ Respond(c, RefreshRequest(req[c].token), "findById", user,
                           403, "Invalid refresh token")
                /\ UNCHANGED <<granted, users>>
           ELSE /\ RespondTokens(c, RefreshRequest(req[c].token), "findById",
                                 user, accessToken, refreshToken)
                /\ users' = [users EXCEPT ![id].refreshToken = refreshToken]
                /\ granted' = accessToken
    /\ UNCHANGED <<env, warned, articles, now, advances, loginLog>>

\* User.findById resolves; the stored token is compared and a new access
\* token is signed (lines 413-426)
RefreshFindById(c) ==
    /\ req[c].op = "refresh" /\ req[c].pc = "findById"
    /\ LET id == findById(req[c].token.id)
           user == IF id = 0 THEN NoDoc ELSE users[id]
           accessToken == jwtSign(user.id, user.username, user.role, JWT_SECRET,
                                  ACCESS_TOKEN_EXPIRES_IN)
       IN  IF ~StoredTokenMatches(req[c].token)
           THEN /\ Respond(c, RefreshRequest(req[c].token), "findById", user,
                           403, "Invalid refresh token")
                /\ UNCHANGED granted
           ELSE /\ RespondTokens(c, RefreshRequest(req[c].token), "findById",
                                 user, accessToken, NoToken)
                /\ granted' = accessToken
    /\ UNCHANGED <<env, warned, users, articles, now, advances, loginLog>>

-----------------------------------------------------------------------------
(* authenticate, lines 290-316, and POST /api/articles, lines 433-446 *)

ArticleRequest(header) == [NoRequest EXCEPT !.op = "article", !.header = header]

\* authHeader.split(' ')[1]
BearerToken(header) == IF Len(header) >= 2 THEN header[2] ELSE EmptyToken

\* !authHeader || !authHeader.startsWith('Bearer ')
NoBearer(header) == header = NoHeader \/ Len(header) < 2 \/ header[1] # "Bearer"

\* authenticate, run without interruption in the current state, calls next()
GateAccepts(header) ==
    /\ ~NoBearer(header)
    /\ jwtVerify(BearerToken(header), JWT_SECRET)
    /\ findById(BearerToken(header).id) # 0

\* the request arrives; the header is checked and the token verified
\* (lines 292-299)
PostArticle(c, header) ==
    /\ Free(c)
    /\ IF NoBearer(header)
       THEN Respond(c, ArticleRequest(header), "check", NoDoc, 401,
                    "Authentication required")
       ELSE IF ~jwtVerify(BearerToken(header), JWT_SECRET)
       THEN Respond(c, ArticleRequest(header), "verify", NoDoc, 401,
                    "Invalid token")
       ELSE Await(c, [Idle EXCEPT !.op = "article", !.pc = "findById",
                                  !.token = BearerToken(header)])
    /\ UNCHANGED <<env, warned, users, articles, now, advances, loginLog, granted>>

\* slip: the user that findById returns is not checked
AuthFindByIdNoUserCheck(c, valid) ==
    /\ req[c].op = "article" /\ req[c].pc = "findById"
    /\ LET id == findById(req[c].token.id)
           user == IF id = 0 THEN NoDoc ELSE users[id]
           request == ArticleRequest(<<"Bearer", req[c].token>>)
       IN  IF ~valid
           THEN /\ Respond(c, request, "createArticle", user, 500,
                           "Article validation failed")
                /\ UNCHANGED articles
           ELSE /\ articles < MaxArticles
                /\ Respond(c, request, "createArticle", user, 201, "")
                /\ articles' = articles + 1
    /\ UNCHANGED <<env, warned, users, now, advances, loginLog, granted>>

\* slip: the gate rejects a token issued before the stored refresh token
AuthFindByIdLatestLoginOnly(c, valid) ==
    /\ req[c].op = "article" /\ req[c].pc = "findById"
    /\ LET id == findById(req[c].token.id)
           user == IF id = 0 THEN NoDoc ELSE users[id]
           request == ArticleRequest(<<"Bearer", req[c].token>>)
       IN  IF id = 0 \/ req[c].token.iat < user.refreshToken.iat
           THEN /\ Respond(c, request, "findById", user, 401, "User not found")
                /\ UNCHANGED articles
           ELSE IF ~valid
           THEN /\ Respond(c, request, "createArticle", user, 500,
                           "Article validation failed")
                /\ UNCHANGED articles
           ELSE /\ articles < MaxArticles
                /\ Respond(c, request, "createArticle", user, 201, "")
                /\ articles' = articles + 1
    /\ UNCHANGED <<env, warned, users, now, advances, loginLog, granted>>

\* User.findById resolves (lines 301-312); next() runs the route handler:
\* the role check and createArticle (lines 436-444), which throws when the
\* article of the body does not validate or repeats a hash
AuthFindById(c, valid) ==
    /\ req[c].op = "article" /\ req[c].pc = "findById"
    /\ LET id == findById(req[c].token.id)
           user == IF id = 0 THEN NoDoc ELSE users[id]
           request == ArticleRequest(<<"Bearer", req[c].token>>)
       IN  IF id = 0
           THEN /\ Respond(c, request, "findById", user, 401, "User not found")
                /\ UNCHANGED articles
           ELSE IF user.role \notin {"admin", "editor"}
           THEN /\ Respond(c, request, "role", user, 403, "Not authorized")
                /\ UNCHANGED articles
           ELSE IF ~valid
           THEN /\ Respond(c, request, "createArticle", user, 500,
                           "Article validation failed")
                /\ UNCHANGED articles
           ELSE /\ articles < MaxArticles
                /\ Respond(c, request, "createArticle", user, 201, "")
                /\ articles' = articles + 1
    /\ UNCHANGED <<env, warned, users, now, advances, loginLog, granted>>

-----------------------------------------------------------------------------
(* The clock *)

Deltas == {1, ACCESS_TOKEN_EXPIRES_IN - 1, ACCESS_TOKEN_EXPIRES_IN,
           REFRESH_TOKEN_EXPIRES_IN - 1, REFRESH_TOKEN_EXPIRES_IN}

Advance(d) ==
    /\ advances < MaxAdvances
    /\ advances' = advances + 1
    /\ now' = now + d
    /\ res' = NoResponse
    /\ UNCHANGED <<env, warned, users, articles, req, loginLog, granted>>

-----------------------------------------------------------------------------
Boot(e) ==
    /\ env = e
    /\ warned = StartupWarns(e)
    /\ users = <<>>
    /\ articles = 0
    /\ now = 0
    /\ advances = 0
    /\ req = [c \in Conns |-> Idle]
    /\ res = NoResponse
    /\ loginLog = <<>>
    /\ granted = NoToken

Init == Boot(EnvUnset)

Next ==
    \/ \E c \in Conns, u \in RegUsernames, p \in RegPasswords, r \in BodyRoles :
          Register(c, u, p, r)
    \/ \E c \in Conns : RegisterSave(c)
    \/ \E c \in Conns, u \in Usernames, p \in Passwords : Login(c, u, p)
    \/ \E c \in Conns : LoginCompare(c)
    \/ \E c \in Conns : LoginSave(c)
    \/ \E c \in Conns, t \in Presentable : Refresh(c, t)
    \/ \E c \in Conns : RefreshFindById(c)
    \/ \E c \in Conns, h \in Headers : PostArticle(c, h)
    \/ \E c \in Conns, v \in BOOLEAN : AuthFindById(c, v)
    \/ \E d \in Deltas : Advance(d)

Spec == Init /\ [][Next]_vars

\* The process a while after its start: alice has registered and has logged
\* in once, at second 0, and both requests are answered.  loginLog holds the
\* logins answered from here on.
InitRelogin ==
    /\ env = EnvUnset
    /\ warned = StartupWarns(EnvUnset)
    /\ now = 0
    /\ advances = 0
    /\ articles = 0
    /\ users = (1 :> [id |-> 1, username |-> "alice",
                      password |-> bcryptHash(Plain("pw1"), "saltA"),
                      role |-> "editor",
                      refreshToken |-> jwtSign(1, "", "", REFRESH_TOKEN_SECRET,
                                               REFRESH_TOKEN_EXPIRES_IN)])
    /\ req = [c \in Conns |-> Idle]
    /\ res = NoResponse
    /\ loginLog = <<>>
    /\ granted = NoToken

\* the login and refresh routes and the clock
NextRelogin ==
    \/ \E c \in Conns, u \in Usernames, p \in Passwords : Login(c, u, p)
    \/ \E c \in Conns : LoginCompare(c)
    \/ \E c \in Conns : LoginSave(c)
    \/ \E c \in Conns, t \in Presentable : Refresh(c, t)
    \/ \E c \in Conns : RefreshFindById(c)
    \/ \E d \in Deltas : Advance(d)

SpecRelogin == InitRelogin /\ [][NextRelogin]_vars
-----------------------------------------------------------------------------
(* Vocabulary of the properties *)

OneHour == 60 * 60
SevenDays == 7 * 24 * 60 * 60

\* the answers of the logins of one user, by position in loginLog
LoginsOf(id) == {i \in DOMAIN loginLog : loginLog[i].id = id}

LoginAccessTokens == {loginLog[i].accessToken : i \in DOMAIN loginLog}
LoginRefreshTokens == {loginLog[i].refreshToken : i \in DOMAIN loginLog}

\* the latest step answered a request to this route
Answered(op) == res.request.op = op

\* the latest step answered a request the moment it arrived
OnArrival == res.pc \in {"check", "verify"}

\* a step after which a request to this route is in flight that was not before
Admitted(c, op) == req[c].op # op /\ req'[c].op = op

\* a step of a route: it takes a request of the route in flight or answers one
StepOf(op) == res'.request.op = op \/ \E c \in Conns : Admitted(c, op)

RefreshStep == StepOf("refresh")

GateStep == StepOf("article")

-----------------------------------------------------------------------------
(* C1: for two successful logins L1 then L2 of one user, whatever time      *)
(* passes between them, once L2 has saved its refresh token a refresh with *)
(* L1's refresh token is answered 403 and a refresh with L2's is answered  *)
(* 200.  Stated for L2 the user's latest login and an unexpired token.     *)
C1_SecondLoginInvalidatesFirst ==
    \A i, j \in DOMAIN loginLog :
        (/\ i < j
         /\ loginLog[i].id = loginLog[j].id
         /\ \A k \in LoginsOf(loginLog[j].id) : k <= j
         /\ \A c \in Conns : req[c].op # "login")
        => /\ ~RefreshAccepts(loginLog[i].refreshToken)
           /\ (Answered("refresh") /\ res.request.token = loginLog[i].refreshToken)
                 => res.status = 403
           /\ now < loginLog[j].refreshToken.iat + SevenDays
                 => RefreshAccepts(loginLog[j].refreshToken)

-----------------------------------------------------------------------------
(* C2: in every state and for every user, the refresh handler accepts at    *)
(* most one token string, the one stored in the user's refreshToken field, *)
(* and none while the field is unset; a refresh answered 200 presented the *)
(* stored token.                                                           *)
RefreshCandidates ==
    Presentable \cup {users[u].refreshToken : u \in DOMAIN users}
                \cup {req[c].token : c \in Conns}

AcceptedFor(u) == {t \in RefreshCandidates : t.id = u /\ RefreshAccepts(t)}

C2_OneRefreshTokenPerUser ==
    /\ \A u \in DOMAIN users :
          /\ Cardinality(AcceptedFor(u)) <= 1
          /\ AcceptedFor(u) \subseteq {users[u].refreshToken}
          /\ users[u].refreshToken = NoToken => AcceptedFor(u) = {}
    /\ \A t \in RefreshCandidates : RefreshAccepts(t) => t.id \in DOMAIN users
    /\ (Answered("refresh") /\ res.status = 200)
          => /\ res.user.id \in DOMAIN users
             /\ res.request.token = users[res.user.id].refreshToken

\* a refresh is answered 200 while another well-signed, unexpired refresh
\* token of the same user exists and is not accepted
C2_Witness ==
    /\ Answered("refresh") /\ res.status = 200
    /\ \E t \in LoginRefreshTokens :
          /\ t.id = res.user.id
          /\ jwtVerify(t, REFRESH_TOKEN_SECRET)
          /\ t # res.request.token
          /\ ~RefreshAccepts(t)

-----------------------------------------------------------------------------
(* C3: of two register requests with the same username, under every         *)
(* interleaving of check and save, one is answered 201 and the other 400   *)
(* "Username already exists".  Stated for the answer of a well-formed      *)
(* request that finds its username taken.                                  *)
C3_DuplicateAnswered400 ==
    (/\ Answered("register")
     /\ res.request.role \in {"", "admin", "editor"}
     /\ res.status # 201)
    => /\ res.status = 400
       /\ res.message = "Username already exists"

-----------------------------------------------------------------------------
(* C4, as claimed: after a login at time t, in every later state the        *)
(* returned access token passes the authentication gate before t + 1 hour  *)
(* and the returned refresh token is accepted by refresh before t + 7 days.*)
C4_TokensLiveForTtl ==
    \A i \in DOMAIN loginLog :
        /\ now < loginLog[i].accessToken.iat + OneHour
              => GateAccepts(<<"Bearer", loginLog[i].accessToken>>)
        /\ now < loginLog[i].refreshToken.iat + SevenDays
              => RefreshAccepts(loginLog[i].refreshToken)

(* C4, amended: after a login at time t, in every later state the returned  *)
(* access token passes the authentication gate before t + 1 hour, and the  *)
(* returned refresh token is accepted by refresh before t + 7 days for as  *)
(* long as it is still the value of the user's refreshToken field, that    *)
(* is until the save of another login has written a different token.       *)
C4_TokensLiveUntilOverwritten ==
    /\ \A i \in DOMAIN loginLog :
          /\ loginLog[i].id \in DOMAIN users
          /\ now < loginLog[i].accessToken.iat + OneHour
                => GateAccepts(<<"Bearer", loginLog[i].accessToken>>)
          /\ (/\ now < loginLog[i].refreshToken.iat + SevenDays
              /\ users[loginLog[i].id].refreshToken = loginLog[i].refreshToken)
                => RefreshAccepts(loginLog[i].refreshToken)
    /\ (/\ Answered("article")
        /\ ~NoBearer(res.request.header)
        /\ BearerToken(res.request.header) \in LoginAccessTokens
        /\ now < BearerToken(res.request.header).iat + OneHour)
          => res.status # 401
    /\ (/\ Answered("refresh")
        /\ res.request.token \in LoginRefreshTokens
        /\ now < res.request.token.iat + SevenDays
        /\ users[res.request.token.id].refreshToken = res.request.token)
          => res.status = 200

\* a refresh with a login's refresh token is answered 200 in the last second
\* of its seven days
C4_Witness ==
    /\ Answered("refresh") /\ res.status = 200
    /\ res.request.token \in LoginRefreshTokens
    /\ now = res.request.token.iat + SevenDays - 1

-----------------------------------------------------------------------------
(* C5: an access token presented to the gate at or after its expiry, one    *)
(* hour after it was issued, is answered 401 although the user record is   *)
(* unchanged; and no step of the gate issues a token or writes the user    *)
(* store.                                                                  *)
C5_ExpiredAccessTokenRejected ==
    /\ [](\A t \in LoginAccessTokens \cup {granted} :
            now >= t.iat + OneHour => ~GateAccepts(<<"Bearer", t>>))
    /\ []((/\ Answered("article") /\ OnArrival
           /\ ~NoBearer(res.request.header)
           /\ now >= BearerToken(res.request.header).iat + OneHour
           /\ BearerToken(res.request.header) \in
                 LoginAccessTokens \cup {granted})
          => res.status = 401)
    /\ [][GateStep => /\ users' = users
                      /\ loginLog' = loginLog
                      /\ granted' = granted
                      /\ res'.accessToken = NoToken
                      /\ res'.refreshToken = NoToken]_vars

\* the access token of a login is answered 401 in the first second after its
\* hour, while its user is stored as the login left it
C5_Witness ==
    /\ Answered("article") /\ res.status = 401
    /\ ~NoBearer(res.request.header)
    /\ \E i \in DOMAIN loginLog :
          /\ loginLog[i].accessToken = BearerToken(res.request.header)
          /\ now = loginLog[i].accessToken.iat + OneHour
          /\ users[loginLog[i].id].refreshToken = loginLog[i].refreshToken

-----------------------------------------------------------------------------
(* C6: a token signed with another secret than the one a flow verifies      *)
(* against is rejected: the gate answers 401 for every token not signed    *)
(* with the access-token secret, every refresh token a login returned      *)
(* included, and refresh answers 403 for every token not signed with the   *)
(* refresh-token secret, every access token returned included.             *)
IssuedAccessTokens == LoginAccessTokens \cup ({granted} \ {NoToken})

C6_WrongSecretRejected ==
    /\ \A t \in RefreshCandidates :
          /\ t.secret # JWT_SECRET => ~GateAccepts(<<"Bearer", t>>)
          /\ t.secret # REFRESH_TOKEN_SECRET => ~RefreshAccepts(t)
    /\ \A t \in LoginRefreshTokens : ~GateAccepts(<<"Bearer", t>>)
    /\ \A t \in IssuedAccessTokens : ~RefreshAccepts(t)
    /\ (/\ Answered("article")
        /\ ~NoBearer(res.request.header)
        /\ \/ BearerToken(res.request.header).secret # JWT_SECRET
           \/ BearerToken(res.request.header) \in LoginRefreshTokens)
          => res.status = 401
    /\ (/\ Answered("refresh")
        /\ ~Falsy(res.request.token)
        /\ \/ res.request.token.secret # REFRESH_TOKEN_SECRET
           \/ res.request.token \in IssuedAccessTokens)
          => res.status = 403

\* the unexpired refresh token a login returned, which is the stored one, is
\* answered 401 by the gate
C6_Witness ==
    /\ Answered("article") /\ res.status = 401
    /\ ~NoBearer(res.request.header)
    /\ BearerToken(res.request.header) \in LoginRefreshTokens
    /\ RefreshAccepts(BearerToken(res.request.header))

-----------------------------------------------------------------------------
(* C7: a refresh, whatever its answer, leaves every user record unchanged;  *)
(* answered 200 it returns an access token and no refresh token, and the   *)
(* token it presented is still accepted afterwards.                        *)
C7_RefreshRotatesNothing ==
    [][RefreshStep =>
         /\ users' = users
         /\ loginLog' = loginLog
         /\ res'.refreshToken = NoToken
         /\ res'.status = 200
               => /\ res'.accessToken # NoToken
                  /\ res'.accessToken.secret = JWT_SECRET
                  /\ res'.accessToken.iat = now
                  /\ res'.accessToken.exp = now + OneHour
                  /\ StoredTokenMatches(res'.request.token)
                  /\ users'[res'.request.token.id].refreshToken
                        = res'.request.token]_vars

\* a refresh is answered 200 with a token issued at an earlier time, and the
\* token is accepted still
C7_Witness ==
    /\ Answered("refresh") /\ res.status = 200
    /\ res.accessToken = granted
    /\ now > res.request.token.iat
    /\ RefreshAccepts(res.request.token)

-----------------------------------------------------------------------------
(* C8: refresh answers 401 exactly when the body carries no token; 403 when *)
(* the token fails verification of signature or expiry, when its id claim  *)
(* finds no user, or when it differs from the user's stored token; 200,    *)
(* with an access token, only when all these checks pass.  No refresh that *)
(* fails changes the user store.                                           *)
C8_RefreshAnswers ==
    /\ [](Answered("refresh") =>
            /\ res.status \in {200, 401, 403}
            /\ res.status = 401 <=> Falsy(res.request.token)
            /\ (/\ ~Falsy(res.request.token)
                /\ \/ res.request.token.kind # "jwt"
                   \/ res.request.token.secret # REFRESH_TOKEN_SECRET
                   \/ OnArrival /\ now >= res.request.token.exp
                   \/ res.request.token.id \notin DOMAIN users
                   \/ users[res.request.token.id].refreshToken # res.request.token)
                  => res.status = 403
            /\ res.status = 200 =>
                  /\ res.accessToken.kind = "jwt"
                  /\ res.accessToken.id = res.request.token.id
                  /\ res.request.token.kind = "jwt"
                  /\ res.request.token.secret = REFRESH_TOKEN_SECRET
                  /\ res.request.token.id \in DOMAIN users
                  /\ users[res.request.token.id].refreshToken = res.request.token
            /\ res.status # 200 => res.accessToken = NoToken)
    /\ [](\A c \in Conns : req[c].op = "refresh" =>
            /\ req[c].token.kind = "jwt"
            /\ req[c].token.secret = REFRESH_TOKEN_SECRET)
    /\ [][\A c \in Conns : Admitted(c, "refresh") => now < req'[c].token.exp]_vars
    /\ [][RefreshStep => users' = users]_vars

\* a well-signed, unexpired token of a stored user is answered 403 because
\* another token is stored
C8_Witness ==
    /\ Answered("refresh") /\ res.status = 403
    /\ jwtVerify(res.request.token, REFRESH_TOKEN_SECRET)
    /\ res.request.token.id \in DOMAIN users
    /\ users[res.request.token.id].refreshToken # NoToken

-----------------------------------------------------------------------------
(* C9: the protected write endpoint creates an article only for a request   *)
(* with an Authorization: Bearer header whose token is signed with the     *)
(* access-token secret, unexpired when verified, and whose id claim finds  *)
(* a user; every other request is answered 401 and creates no article.     *)
C9_ArticleNeedsAuthentication ==
    /\ [](Answered("article") =>
            /\ (\/ NoBearer(res.request.header)
                \/ BearerToken(res.request.header).kind # "jwt"
                \/ BearerToken(res.request.header).secret # JWT_SECRET
                \/ OnArrival /\ now >= BearerToken(res.request.header).exp
                \/ BearerToken(res.request.header).id \notin DOMAIN users)
                  => res.status = 401
            /\ res.status = 401 => res.user = NoDoc)
    /\ [](\A c \in Conns : req[c].op = "article" =>
            /\ req[c].token.kind = "jwt"
            /\ req[c].token.secret = JWT_SECRET)
    /\ [][\A c \in Conns : Admitted(c, "article") => now < req'[c].token.exp]_vars
    /\ [][articles' # articles =>
            /\ articles' = articles + 1
            /\ res'.request.op = "article" /\ res'.status = 201
            /\ ~NoBearer(res'.request.header)
            /\ BearerToken(res'.request.header).kind = "jwt"
            /\ BearerToken(res'.request.header).secret = JWT_SECRET
            /\ BearerToken(res'.request.header).id \in DOMAIN users]_vars
    /\ [][res'.status = 401 => articles' = articles]_vars

\* a token that verifies is answered 401 because its id claim finds no user
C9_Witness ==
    /\ Answered("article") /\ res.status = 401
    /\ res.pc = "findById"
    /\ jwtVerify(BearerToken(res.request.header), JWT_SECRET)
    /\ articles = 0

-----------------------------------------------------------------------------
(* C10: a login that fails is answered the same, status 401 and message     *)
(* "Invalid credentials", whether the username has no user record or the   *)
(* password is wrong, and it changes nothing in the store.                 *)
FailedLoginAnswer ==
    [NoResponse EXCEPT !.status = 401, !.message = "Invalid credentials"]

\* the answer as the client sees it
Visible(answer) ==
    [answer EXCEPT !.request = NoRequest, !.pc = "", !.user = NoDoc]

-----------------------------------------------------------------------------
(* C11: in every state, the password field of every stored user is the      *)
(* hash, made once with a salt, of the password its registration           *)
(* submitted, and it is never that plaintext; the registration answered    *)
(* 201 stored the hash of the password of its body.                        *)
C11_StoredPasswordIsHash ==
    /\ \A u \in DOMAIN users :
          /\ users[u].password.n = 1
          /\ users[u].password.salt \in Salts
          /\ users[u].password.of \in RegPasswords
          /\ users[u].password # Plain(users[u].password.of)
          /\ bcryptCompare(users[u].password.of, users[u].password)
    /\ (Answered("register") /\ res.status = 201)
          => \E u \in DOMAIN users :
                /\ users[u].username = res.request.username
                /\ users[u].password # Plain(res.request.password)
                /\ bcryptCompare(res.request.password, users[u].password)

\* a user is stored whose login and refresh have both been answered 200
C11_Witness ==
    /\ Answered("refresh") /\ res.status = 200
    /\ loginLog # <<>>
    /\ res.user.id \in DOMAIN users
    /\ users[res.user.id].password.n = 1

-----------------------------------------------------------------------------
(* C12: after registrations with any role value, every stored user has role *)
(* admin or editor; a registration that omits the role builds and stores a *)
(* document with role editor; and no request to the article write endpoint *)
(* is answered 403.                                                        *)
C12_StoredRolesRecognized ==
    /\ [](\A u \in DOMAIN users : users[u].role \in {"admin", "editor"})
    /\ [](Answered("article") => res.status # 403)
    /\ [][\A c \in Conns, u \in RegUsernames, p \in RegPasswords :
            (Admitted(c, "register") /\ Register(c, u, p, ""))
               => req'[c].user.role = "editor"]_vars
    /\ [][\A c \in Conns :
            (/\ req[c].op = "register" /\ req'[c] = Idle
             /\ res'.status = 201)
            => \E u \in DOMAIN users' :
                  /\ u \notin DOMAIN users
                  /\ users'[u].username = req[c].user.username
                  /\ users'[u].role = req[c].user.role]_vars

\* a registration with an unrecognized role is answered and stores nothing,
\* while a user registered before it is stored
C12_Witness ==
    /\ Answered("register") /\ res.request.role = "viewer"
    /\ res.status = 500
    /\ users # <<>>

-----------------------------------------------------------------------------
(* C13: a registration for a fresh username whose role is neither admin nor *)
(* editor is answered 201 and the user is stored with role editor.         *)
C13_UnrecognizedRoleDefaults ==
    (/\ Answered("register") /\ res.pc = "save"
     /\ res.request.role \notin {"admin", "editor"})
    => \/ /\ res.status = 201
          /\ \E u \in DOMAIN users :
                /\ users[u].username = res.request.username
                /\ users[u].role = "editor"
       \/ /\ res.status # 201
          /\ UsernameTaken(res.request.username)

-----------------------------------------------------------------------------
(* C14: when the process starts with NODE_ENV = production and the          *)
(* access-token or the refresh-token secret is not configured, startup     *)
(* writes the warning.                                                     *)
C14_MissingSecretReported ==
    (/\ env.NODE_ENV = "production"
     /\ env.JWT_SECRET = "" \/ env.REFRESH_TOKEN_SECRET = "")
    => warned

-----------------------------------------------------------------------------
(* C15: a step of a login that is not answered 200 leaves every user record *)
(* unchanged, and every refresh token accepted before the step is accepted *)
(* after it.                                                               *)
C15_FailedLoginKeepsStore ==
    [][(StepOf("login") /\ res'.status # 200) =>
         /\ users' = users
         /\ \A t \in LoginRefreshTokens :
               RefreshAccepts(t) => RefreshAccepts(t)']_vars

\* a login is answered 401 for a user whose refresh token is accepted
C15_Witness ==
    /\ Answered("login") /\ res.status = 401
    /\ res.user # NoDoc
    /\ \E t \in LoginRefreshTokens :
          t.id = res.user.id /\ RefreshAccepts(t)

-----------------------------------------------------------------------------
(* C16: once no login is in flight, the stored refreshToken of every user   *)
(* is the refresh token returned by the login of that user whose save      *)
(* resolved last.                                                          *)
LastLoginOf(id) == CHOOSE i \in LoginsOf(id) : \A k \in LoginsOf(id) : k <= i

C16_LastSaveWins ==
    (\A c \in Conns : req[c].op # "login")
    => \A id \in DOMAIN users :
          LoginsOf(id) # {}
             => users[id].refreshToken = loginLog[LastLoginOf(id)].refreshToken

-----------------------------------------------------------------------------
(* C17: an access token issued by login or refresh at time t passes the     *)
(* gate in every later state before t + 1 hour, whatever logins and        *)
(* refreshes of the same user have followed; presented before t + 1 hour   *)
(* it is never answered 401; and no step of login or refresh makes the     *)
(* gate reject an access token it accepted.                                *)
C17_AccessTokenOutlivesLogins ==
    /\ [](\A t \in IssuedAccessTokens :
            now < t.iat + OneHour => GateAccepts(<<"Bearer", t>>))
    /\ []((/\ Answered("article")
           /\ ~NoBearer(res.request.header)
           /\ BearerToken(res.request.header) \in IssuedAccessTokens
           /\ now < BearerToken(res.request.header).iat + OneHour)
          => res.status \in {201, 500})
    /\ [][(StepOf("login") \/ StepOf("refresh")) =>
            \A t \in IssuedAccessTokens :
               GateAccepts(<<"Bearer", t>>) => GateAccepts(<<"Bearer", t>>)']_vars

\* an access token is answered 201 after a later login of its user has
\* stored another refresh token
C17_Witness ==
    /\ Answered("article") /\ res.status = 201
    /\ BearerToken(res.request.header) \in LoginAccessTokens
    /\ res.user.id \in DOMAIN users
    /\ users[res.user.id].refreshToken.iat > BearerToken(res.request.header).iat

-----------------------------------------------------------------------------
(* C18: no step changes the password hash, the username or the role of a    *)
(* stored user, the save of a login included; the stored hash is the hash, *)
(* made once, of the registration password, and no login that submits the  *)
(* password its user registered with is answered 401.                      *)
C18_LoginSaveWritesTokenOnly ==
    /\ [][\A u \in DOMAIN users :
            /\ u \in DOMAIN users'
            /\ users'[u].password = users[u].password
            /\ users'[u].username = users[u].username
            /\ users'[u].role = users[u].role
            /\ users'[u].id = users[u].id]_vars
    /\ [](\A i \in DOMAIN loginLog :
            /\ loginLog[i].id \in DOMAIN users
            /\ users[loginLog[i].id].password.n = 1)
    /\ []((/\ Answered("login") /\ res.status = 401
           /\ res.user # NoDoc)
          => res.request.password # res.user.password.of)

\* the second login of a user with the registration password is answered 200
C18_Witness ==
    /\ Answered("login") /\ res.status = 200
    /\ Len(loginLog) = 2
    /\ loginLog[1].id = loginLog[2].id
    /\ bcryptCompare(res.request.password, users[loginLog[2].id].password)
====
